---- MODULE Spec2Model ----
(***************************************************************************)
(* HMO investment opportunity finder: the opportunity-detection and        *)
(* matching pipeline of hmo_investment_finder_scraper.py (the "scraper"    *)
(* variant) and of its RSS predecessor "hmo_investment_finder (2).py"      *)
(* (the "rss" variant).  Texts are TLA+ strings handled character by       *)
(* character, so that substring tests and the regular expressions of the   *)
(* source are computed, not assumed.                                       *)
(***************************************************************************)
EXTENDS Integers, Sequences, FiniteSets, TLC

VARIABLES
    variant,        \* which of the two near-duplicate programs runs
    creds,          \* TELEGRAM_BOT_TOKEN and TELEGRAM_CHAT_ID both set
    pc,             \* position of main()
    run,            \* number of the current run of main()
    file,           \* seen_properties.json on disk
    landlords,      \* main: landlords
    seen,           \* main: seen_properties
    listings,       \* main: all_properties / properties
    idx,            \* main: position of the for loop in listings
    found,          \* main: opportunities_found
    last,           \* main: the locals of the last completed loop iteration
    hist,           \* observation of the current run (not program state)
    fn,             \* pure-function harness: the function applied
    input,          \* pure-function harness: its argument
    output          \* pure-function harness: its result

vars == <<variant, creds, pc, run, file, landlords, seen, listings, idx,
          found, last, hist, fn, input, output>>

(***************************************************************************)
(* Python values                                                           *)
(***************************************************************************)
\* Python's None (an absent cell, a regex without match, a missing guid)
None == "<None>"

\* Truthiness of a str-or-None value: None and '' are falsy
Truthy(x) == x # None /\ x # ""

Min(a, b) == IF a < b THEN a ELSE b

\* s[i] as a one-character string, '' beyond the end
Ch(s, i) == IF i >= 1 /\ i <= Len(s) THEN SubSeq(s, i, i) ELSE ""

\* s[a-1:b] of Python, positions counted from 1
Slice(s, a, b) == SubSeq(s, a, Min(b, Len(s)))

UpperLetters == "ABCDEFGHIJKLMNOPQRSTUVWXYZ"

LowerLetters == "abcdefghijklmnopqrstuvwxyz"

DigitChars == "0123456789"

CharsOf(s) == {Ch(s, k) : k \in 1..Len(s)}

Digits == CharsOf(DigitChars)

\* \s of the re module, as far as the modelled texts use it
Whitespace == {" "}

PosIn(alphabet, c) == CHOOSE k \in 1..Len(alphabet) : Ch(alphabet, k) = c

LowerCh(c) == IF c \in CharsOf(UpperLetters) THEN Ch(LowerLetters, PosIn(UpperLetters, c)) ELSE c

UpperCh(c) == IF c \in CharsOf(LowerLetters) THEN Ch(UpperLetters, PosIn(LowerLetters, c)) ELSE c

RECURSIVE lower(_)
\* str.lower()
lower(s) == IF s = "" THEN "" ELSE LowerCh(Ch(s, 1)) \o lower(SubSeq(s, 2, Len(s)))

RECURSIVE upper(_)
\* str.upper()
upper(s) == IF s = "" THEN "" ELSE UpperCh(Ch(s, 1)) \o upper(SubSeq(s, 2, Len(s)))

\* Python's  kw in s  on strings
Contains(kw, s) == \E k \in 1..(Len(s) - Len(kw) + 1) : SubSeq(s, k, k + Len(kw) - 1) = kw

\* the number of consecutive characters of s from position i on that are in class
RunLen(s, i, class) ==
    CHOOSE n \in 0..(Len(s) + 1) :
        /\ \A j \in i..(i + n - 1) : Ch(s, j) \in class
        /\ Ch(s, i + n) \notin class

RECURSIVE StrToInt(_)
\* int() of a string of decimal digits
StrToInt(s) ==
    IF s = "" THEN 0
    ELSE 10 * StrToInt(SubSeq(s, 1, Len(s) - 1)) + (PosIn(DigitChars, Ch(s, Len(s))) - 1)

RECURSIVE IntToStr(_)
\* str() of a natural number, as the f-strings format it
IntToStr(n) == IF n < 10 THEN Ch(DigitChars, n + 1) ELSE IntToStr(n \div 10) \o Ch(DigitChars, (n % 10) + 1)

(***************************************************************************)
(* Attribute extraction                                                    *)
(***************************************************************************)
\* r'BN\d+\s*\d+[A-Z]{2}' with re.IGNORECASE, anchored at position i of the
\* upper-cased text t: the position of the last matched character, 0 when the
\* pattern does not match at i.  Either the first digit run is followed by
\* whitespace, a second digit run and two letters, or (no whitespace) the
\* first digit run of at least two digits is split between the two \d+ and
\* followed by two letters.
PostcodeEnd(t, i) ==
    LET d1 == RunLen(t, i + 2, Digits)
        p1 == i + 2 + d1
        ws == RunLen(t, p1, Whitespace)
        d2 == RunLen(t, p1 + ws, Digits)
        p2 == p1 + ws + d2
        TwoLetters(p) == Ch(t, p) \in CharsOf(UpperLetters) /\ Ch(t, p + 1) \in CharsOf(UpperLetters)
    IN  IF Slice(t, i, i + 1) # "BN" \/ d1 = 0 THEN 0
        ELSE IF ws > 0 THEN (IF d2 > 0 /\ TwoLetters(p2) THEN p2 + 1 ELSE 0)
        ELSE IF d1 >= 2 /\ TwoLetters(p1) THEN p1 + 1 ELSE 0

\* extract_postcode: the leftmost match (re.search), upper-cased, or None
extract_postcode(address) ==
    LET t == upper(address)
        hits == {k \in 1..Len(t) : PostcodeEnd(t, k) > 0}
        i == CHOOSE k \in hits : \A j \in hits : k <= j
    IN  IF hits = {} THEN None ELSE SubSeq(t, i, PostcodeEnd(t, i))

\* ward_map of get_ward_from_postcode, as the list of its (key, value) items
ward_map ==
    << <<"BN1", <<"West Hill & North Laine", "Regency", "Queens Park">> >>,
       <<"BN2", <<"Hanover & Elm Grove", "Kemptown", "Queens Park", "Moulsecoomb & Bevendean">> >>,
       <<"BN3", <<"Brunswick & Adelaide", "Goldsmid", "Central Hove", "Wish">> >>,
       <<"BN41", <<"Portslade">> >>,
       <<"BN42", <<"Southwick">> >> >>

\* dict.get(key, default) on a list of items with distinct keys
DictGet(items, key, default) ==
    IF \E k \in 1..Len(items) : items[k][1] = key
    THEN items[CHOOSE k \in 1..Len(items) : items[k][1] = key][2]
    ELSE default

\* get_ward_from_postcode of the scraper: [] for no postcode
get_ward_from_postcode(postcode) ==
    IF ~Truthy(postcode) THEN <<>>
    ELSE DictGet(ward_map, Slice(postcode, 1, 3), <<>>)

\* r'EPC\s+(?:rating\s+)?([A-G])' with re.IGNORECASE anchored at position i of
\* the upper-cased text t: the position of the captured letter, 0 for no match
EpcLetterPos(t, i) ==
    LET ws1 == RunLen(t, i + 3, Whitespace)
        p   == i + 3 + ws1
        ws2 == RunLen(t, p + 6, Whitespace)
        q   == p + 6 + ws2
        Grade(k) == Ch(t, k) \in {"A", "B", "C", "D", "E", "F", "G"}
    IN  IF Slice(t, i, i + 2) # "EPC" \/ ws1 = 0 THEN 0
        ELSE IF Slice(t, p, p + 5) = "RATING" /\ ws2 > 0 /\ Grade(q) THEN q
        ELSE IF Grade(p) THEN p
        ELSE 0

\* the regex part shared by both extract_epc_rating: the letter or None
EpcMatch(description) ==
    LET t == upper(description)
        hits == {k \in 1..Len(t) : EpcLetterPos(t, k) > 0}
        i == CHOOSE k \in hits : \A j \in hits : k <= j
    IN  IF hits = {} THEN None ELSE Ch(t, EpcLetterPos(t, i))

\* 'Unknown (mentioned)'
Sentinel == "Unknown (mentioned)"

\* extract_epc_rating of the scraper
extract_epc_rating_scraper(prop) == EpcMatch(prop.description)

\* extract_epc_rating of the rss variant
extract_epc_rating_rss(prop) ==
    IF EpcMatch(prop.description) # None THEN EpcMatch(prop.description)
    ELSE IF Contains("energy efficiency", lower(prop.description)) THEN Sentinel
    ELSE None

extract_epc_rating(v, prop) ==
    IF v = "scraper" THEN extract_epc_rating_scraper(prop) ELSE extract_epc_rating_rss(prop)

LowGrades == {"D", "E", "F", "G"}

\* is_low_epc of the scraper
is_low_epc_scraper(epc_rating) ==
    IF ~Truthy(epc_rating) THEN FALSE ELSE epc_rating \in LowGrades

\* faulty variant of is_low_epc_rss: everything that is not A, B or C counts as low
is_low_epc_rss_notABC(epc_rating) ==
    IF ~Truthy(epc_rating) THEN FALSE ELSE epc_rating \notin {"A", "B", "C"}

\* is_low_epc of the rss variant
is_low_epc_rss(epc_rating) ==
    IF ~Truthy(epc_rating) \/ epc_rating = Sentinel THEN FALSE ELSE epc_rating \in LowGrades

is_low_epc(v, epc_rating) ==
    IF v = "scraper" THEN is_low_epc_scraper(epc_rating) ELSE is_low_epc_rss(epc_rating)

(***************************************************************************)
(* Opportunity scorer                                                      *)
(***************************************************************************)
\* hmo_keywords, in the insertion order in which dict.items() yields it
hmo_keywords ==
    << <<"student", 10>>, <<"sharers", 15>>, <<"hmo", 30>>, <<"rental income", 15>>,
       <<"investment", 10>>, <<"multi", 10>>, <<"separate", 5>>, <<"ensuite", 10>> >>

\* the bedroom tier: [score, reasons]
BedroomTier(bedrooms) ==
    IF bedrooms >= 5
    THEN [score |-> 30, reasons |-> <<IntToStr(bedrooms) \o " bedrooms (excellent for HMO)">>]
    ELSE IF bedrooms >= 3
    THEN [score |-> 20, reasons |-> <<IntToStr(bedrooms) \o " bedrooms (good for HMO)">>]
    ELSE [score |-> 0, reasons |-> <<>>]

\* the number of occurrences of kw in s
Occurrences(kw, s) == Cardinality({k \in 1..(Len(s) - Len(kw) + 1) : SubSeq(s, k, k + Len(kw) - 1) = kw})

RECURSIVE KeywordScanPerOccurrence(_, _)
\* faulty variant of KeywordScan: a keyword scores once per occurrence
KeywordScanPerOccurrence(k, texts) ==
    IF k > Len(hmo_keywords) THEN [score |-> 0, reasons |-> <<>>]
    ELSE LET rest == KeywordScanPerOccurrence(k + 1, texts)
             kw == hmo_keywords[k][1]
             n == CHOOSE m \in 0..100 : \E t \in texts :
                      /\ m = Occurrences(kw, t)
                      /\ \A u \in texts : Occurrences(kw, u) <= m
         IN  IF n > 0
             THEN [score |-> n * hmo_keywords[k][2] + rest.score,
                   reasons |-> <<"Mentions '" \o kw \o "'">> \o rest.reasons]
             ELSE rest

RECURSIVE KeywordScan(_, _)
\* for keyword, points in hmo_keywords.items(), from item k on: a keyword
\* counts when it occurs in one of the scanned texts
KeywordScan(k, texts) ==
    IF k > Len(hmo_keywords) THEN [score |-> 0, reasons |-> <<>>]
    ELSE LET rest == KeywordScan(k + 1, texts)
             kw == hmo_keywords[k][1]
         IN  IF \E t \in texts : Contains(kw, t)
             THEN [score |-> hmo_keywords[k][2] + rest.score,
                   reasons |-> <<"Mentions '" \o kw \o "'">> \o rest.reasons]
             ELSE rest

TerraceReason == "Terraced house (good for HMO conversion)"

\* assess_hmo_potential of the scraper: the structured bedrooms field, the
\* keywords in description or title, 'terraced' in description or 'terrace'
\* in title
assess_hmo_potential_scraper(prop) ==
    LET description == lower(prop.description)
        title == lower(prop.title)
        beds == BedroomTier(prop.bedrooms)
        kws == KeywordScan(1, {description, title})
        terr == Contains("terraced", description) \/ Contains("terrace", title)
    IN  [score |-> beds.score + kws.score + (IF terr THEN 5 ELSE 0),
         reasons |-> beds.reasons \o kws.reasons \o (IF terr THEN <<TerraceReason>> ELSE <<>>)]

\* re.search(r'(\d+)\s+bed', text): the number captured by the leftmost
\* match, 0 when there is no match (no match adds nothing, as 0 bedrooms do)
BedMatch(text) ==
    LET At(k) == LET d == RunLen(text, k, Digits)
                     ws == RunLen(text, k + d, Whitespace)
                 IN  d > 0 /\ ws > 0 /\ Slice(text, k + d + ws, k + d + ws + 2) = "bed"
        hits == {k \in 1..Len(text) : At(k)}
        i == CHOOSE k \in hits : \A j \in hits : k <= j
    IN  IF hits = {} THEN 0 ELSE StrToInt(SubSeq(text, i, i + RunLen(text, i, Digits) - 1))

\* assess_hmo_potential of the rss variant: bedrooms parsed from the text, the
\* keywords in the description only, +5 for 'house', terrace in the description
assess_hmo_potential_rss(prop) ==
    LET description == lower(prop.description)
        title == lower(prop.title)
        beds == BedroomTier(BedMatch(title \o " " \o description))
        kws == KeywordScan(1, {description})
        house == Contains("house", description)
        terr == Contains("terraced", description) \/ Contains("terrace", description)
    IN  [score |-> beds.score + kws.score + (IF house THEN 5 ELSE 0) + (IF terr THEN 5 ELSE 0),
         reasons |-> beds.reasons \o kws.reasons \o (IF terr THEN <<TerraceReason>> ELSE <<>>)]

assess_hmo_potential(v, prop) ==
    IF v = "scraper" THEN assess_hmo_potential_scraper(prop) ELSE assess_hmo_potential_rss(prop)

(***************************************************************************)
(* Portfolio index                                                         *)
(***************************************************************************)
\* Masterkey.xlsx: the rows of 'Sheet1' below the header row
Workbook(rows) == [state |-> "ok", rows |-> rows]

\* the workbook cannot be opened (no file, no 'Sheet1', not a workbook)
Missing == [state |-> "missing", rows |-> <<>>]

\* the default factory of the defaultdict
NewLandlord ==
    [name |-> "", properties |-> <<>>, wards |-> {}, total_bedrooms |-> 0,
     property_count |-> 0, agent |-> ""]

\* the position of key name in the dict (a sequence in insertion order), 0 if absent
KeyPos(dict, name) ==
    IF \E k \in 1..Len(dict) : dict[k].key = name
    THEN CHOOSE k \in 1..Len(dict) : dict[k].key = name
    ELSE 0

\* landlord['wards'].add(ward): the cell value goes into the set as it is
AddWard(wards, ward) == wards \cup {ward}

\* faulty variant of SetAgent: the last non-empty agent wins
SetAgentLastWins(current, agent) == IF Truthy(agent) THEN agent ELSE current

\* if agent and not landlord['agent']: landlord['agent'] = agent
SetAgent(current, agent) == IF Truthy(agent) /\ ~Truthy(current) THEN agent ELSE current

\* the body of  if applicant_name:  -- landlords[applicant_name] creates the
\* profile on first use, then the row is added to it.  A row is [name,
\* address, ward, bedrooms, agent] (columns 6, 3, 4, 14, 8); an empty
\* bedrooms cell is 0, falsy like None.
AddRow(dict, row) ==
    LET d == IF KeyPos(dict, row.name) = 0
             THEN Append(dict, [key |-> row.name, value |-> NewLandlord])
             ELSE dict
        k == KeyPos(d, row.name)
        l == d[k].value
        l2 == [l EXCEPT !.name = row.name,
                        !.properties = Append(@, row.address),
                        !.wards = AddWard(@, row.ward),
                        !.property_count = @ + 1,
                        !.total_bedrooms = IF row.bedrooms # 0 THEN @ + row.bedrooms ELSE @,
                        !.agent = SetAgent(@, row.agent)]
    IN  [d EXCEPT ![k].value = l2]

\* faulty variant of FoldRow: the  if applicant_name  test is missing
FoldRowNoSkip(dict, row) == AddRow(dict, row)

\* the body of the for loop over the rows: one row folded into the dict
FoldRow(dict, row) ==
    IF ~Truthy(row.name) THEN dict ELSE AddRow(dict, row)

RECURSIVE FoldRows(_, _)
FoldRows(dict, rows) ==
    IF rows = <<>> THEN dict ELSE FoldRows(FoldRow(dict, Head(rows)), Tail(rows))

\* load_landlord_database: [ok, value]; ok = FALSE is the exception that
\* openpyxl.load_workbook / wb['Sheet1'] raises.  The dict is the sequence of
\* its items in insertion order; the final set-to-list conversion of each
\* wards is kept as the set, the list being used for membership only.
load_landlord_database(sheet) ==
    IF sheet.state = "missing" THEN [ok |-> FALSE, value |-> <<>>]
    ELSE [ok |-> TRUE, value |-> FoldRows(<<>>, sheet.rows)]

(***************************************************************************)
(* Matcher                                                                 *)
(***************************************************************************)
\* faulty variant of WardScan: a landlord's wards count once, however many match
WardScanAnyWard(k, property_wards, info) ==
    IF \E i \in k..Len(property_wards) : property_wards[i] \in info.wards
    THEN [score |-> 30, reasons |-> <<"Has properties in the area">>]
    ELSE [score |-> 0, reasons |-> <<>>]

RECURSIVE WardScan(_, _, _)
\* for ward in property_wards, from position k on
WardScan(k, property_wards, info) ==
    IF k > Len(property_wards) THEN [score |-> 0, reasons |-> <<>>]
    ELSE LET rest == WardScan(k + 1, property_wards, info)
         IN  IF property_wards[k] \in info.wards
             THEN [score |-> 30 + rest.score,
                   reasons |-> <<"Has properties in " \o property_wards[k]>> \o rest.reasons]
             ELSE rest

\* the score and reasons of one landlord
MatchOf(property_wards, item) ==
    LET info == item.value
        w == WardScan(1, property_wards, info)
        inv == info.property_count >= 3
        ag == Truthy(info.agent)
    IN  [landlord |-> item.key,
         score |-> w.score + (IF inv THEN 20 ELSE 0) + (IF ag THEN 10 ELSE 0),
         reasons |-> w.reasons
             \o (IF inv THEN <<"Active investor (" \o IntToStr(info.property_count) \o " properties)">> ELSE <<>>)
             \o (IF ag THEN <<"Works with agent: " \o info.agent>> ELSE <<>>),
         portfolio_size |-> info.property_count,
         agent |-> info.agent]

\* if match_score >= 20: matches.append(...)
Qualifies(m) == m.score >= 20

RECURSIVE Candidates(_, _, _)
\* the loop over landlords.items(), from item k on
Candidates(k, property_wards, dict) ==
    IF k > Len(dict) THEN <<>>
    ELSE LET m == MatchOf(property_wards, dict[k])
         IN  (IF Qualifies(m) THEN <<m>> ELSE <<>>) \o Candidates(k + 1, property_wards, dict)

\* faulty variant of InsertDesc: m goes in front of the entries of equal score
InsertDescUnstable(s, m) ==
    LET n == Cardinality({k \in 1..Len(s) : s[k].score > m.score})
    IN  SubSeq(s, 1, n) \o <<m>> \o SubSeq(s, n + 1, Len(s))

\* m inserted into the descending sequence s behind the entries of equal score
InsertDesc(s, m) ==
    LET n == Cardinality({k \in 1..Len(s) : s[k].score >= m.score})
    IN  SubSeq(s, 1, n) \o <<m>> \o SubSeq(s, n + 1, Len(s))

RECURSIVE SortDesc(_)
\* matches.sort(key=lambda x: x['score'], reverse=True): stable, descending
SortDesc(s) ==
    IF s = <<>> THEN <<>> ELSE InsertDesc(SortDesc(SubSeq(s, 1, Len(s) - 1)), s[Len(s)])

\* faulty variant of Top: the list is not truncated
TopAll(s) == s

\* matches[:5]
Top(s) == SubSeq(s, 1, Min(5, Len(s)))

\* property_wards of find_matching_landlords: the candidate wards of a listing
CandidateWards(prop) ==
    LET property_postcode == extract_postcode(prop.title)
    IN  IF Truthy(property_postcode) THEN get_ward_from_postcode(property_postcode) ELSE <<>>

\* find_matching_landlords
find_matching_landlords(prop, dict) ==
    LET property_wards == CandidateWards(prop)
    IN  Top(SortDesc(Candidates(1, property_wards, dict)))

(***************************************************************************)
(* Notification channel and deduplication store                            *)
(***************************************************************************)
\* send_telegram_alert: the values it can return.  Without credentials it
\* returns False; with them the answer of the HTTP call decides (status 200
\* or not, an exception caught and turned into False).
send_telegram_alert(configured) == IF ~configured THEN {FALSE} ELSE BOOLEAN

\* seen_properties.json: absent, opened for writing and still empty, or a
\* JSON list of ids
NoFile == [state |-> "missing", ids |-> <<>>]

Truncated == [state |-> "truncated", ids |-> <<>>]

JsonFile(ids) == [state |-> "json", ids |-> ids]

Range(s) == {s[k] : k \in 1..Len(s)}

\* list(seen_ids): the elements of the set once each, in an order the set chooses
ListsOf(S) == {l \in [1..Cardinality(S) -> S] : Range(l) = S}

\* faulty variant of load_seen_properties: FileNotFoundError is not caught
load_seen_properties_uncaught(f) ==
    IF f.state = "json" THEN [ok |-> TRUE, value |-> Range(f.ids)]
    ELSE [ok |-> FALSE, value |-> {}]

\* faulty variant of load_seen_properties: the file is not read
load_seen_properties_forgetful(f) == [ok |-> TRUE, value |-> {}]

\* load_seen_properties: [ok, value]; FileNotFoundError is caught, the
\* JSONDecodeError of an empty file is not
load_seen_properties(f) ==
    IF f.state = "missing" THEN [ok |-> TRUE, value |-> {}]
    ELSE IF f.state = "truncated" THEN [ok |-> FALSE, value |-> {}]
    ELSE [ok |-> TRUE, value |-> Range(f.ids)]

\* save_seen_properties, second half: json.dump(list(seen_ids), f), the
\* contents the file can get
save_seen_properties(seen_ids) == {JsonFile(l) : l \in ListsOf(seen_ids)}

(***************************************************************************)
(* Inputs                                                                  *)
(***************************************************************************)
Variants == {"scraper", "rss"}

\* the most listings one run retrieves
MaxListings == 2

\* the most runs of main() in a behaviour
MaxRuns == 2

P1 == [id |-> "p1", title |-> "Flat BN2 1AB", description |-> "EPC D", bedrooms |-> 0]

P2 == [id |-> "p2", title |-> "5 bed house BN1 4AA", description |-> "ideal hmo for students", bedrooms |-> 5]

P3 == [id |-> "p3", title |-> "Studio BN41 2CD", description |-> "energy efficiency certificate available", bedrooms |-> 1]

P4 == [id |-> None, title |-> "4 bed BN3 2EF", description |-> "EPC rating e", bedrooms |-> 4]

P5 == [id |-> "p3", title |-> "3 bed terrace BN1 4AA", description |-> "investment EPC rating B sharers", bedrooms |-> 3]

\* the records the retrieval collaborator can produce
Catalog == {P1, P2, P3, P4, P5}

SeqsUpTo(S, n) == UNION {[1..k -> S] : k \in 0..n}

\* scrape_rightmove_page keeps a card only if prop_id and title; an RSS
\* entry without guid and link has id None
Feeds(v) ==
    IF v = "scraper"
    THEN SeqsUpTo({l \in Catalog : Truthy(l.id) /\ Truthy(l.title)}, MaxListings)
    ELSE SeqsUpTo(Catalog, MaxListings)

Row(name, ward, agent, bedrooms) ==
    [name |-> name, address |-> "1 X St", ward |-> ward, agent |-> agent, bedrooms |-> bedrooms]

SheetA ==
    Workbook(<< Row("Alice", "Regency", "AgentA", 3), Row("Alice", "Regency", None, 2),
                Row("Alice", None, "AgentB", 0), Row("Bob", "Kemptown", "", 4) >>)

SheetB == Workbook(<< Row("Bob", "Portslade", None, 1), Row(None, "Regency", "AgentA", 2) >>)

\* what Masterkey.xlsx can hold when a run starts
Sheets == {SheetA, SheetB, Missing}

\* assess_hmo_potential and extract_epc_rating of the catalog's records,
\* tabulated once: main() applies them to each unseen listing
Assessed == [v \in Variants |-> [l \in Catalog |-> assess_hmo_potential(v, l)]]

Rated == [v \in Variants |-> [l \in Catalog |-> extract_epc_rating(v, l)]]

\* the landlord indexes a run can hold: empty before the load, then what
\* load_landlord_database returns for the workbook
Indexes == {<<>>} \cup {load_landlord_database(sheet).value : sheet \in Sheets}

\* find_matching_landlords of the catalog's records against those indexes,
\* tabulated once
Matched == [dict \in Indexes |-> [l \in Catalog |-> find_matching_landlords(l, dict)]]

(***************************************************************************)
(* main()                                                                  *)
(***************************************************************************)
NoIteration == [kind |-> "none", id |-> None, hmo_score |-> 0, epc_rating |-> None,
                is_opportunity |-> FALSE, matches |-> <<>>, sent |-> "no"]

\* the observation of one run; alerted (the ids dispatched in this run and in
\* the runs before it, back to the last run that was killed) and realerted
\* (one of them was dispatched again) are carried from run to run
NewHist(f, prevDone) ==
    [fileAtStart |-> f, loaded |-> {}, scored |-> {}, matchedOn |-> {},
     dispatched |-> <<>>, writes |-> 0, dbFailed |-> FALSE, same |-> FALSE,
     prevCompleted |-> prevDone, summary |-> FALSE, crashedAt |-> "", crashedIdx |-> 0,
     alerted |-> {}, realerted |-> FALSE]

Init ==
    /\ variant \in Variants
    /\ creds \in BOOLEAN
    /\ pc = "start"
    /\ run = 1
    /\ file = NoFile
    /\ landlords = <<>>
    /\ seen = {}
    /\ listings = <<>>
    /\ idx = 0
    /\ found = 0
    /\ last = NoIteration
    /\ hist = NewHist(NoFile, FALSE)
    /\ fn = "main"
    /\ input = <<>>
    /\ output = <<>>

harness == <<fn, input, output>>

\* landlords = load_landlord_database(); an exception leaves main
LoadLandlords ==
    /\ fn = "main"
    /\ pc = "start"
    /\ \E sheet \in Sheets :
         LET r == load_landlord_database(sheet)
         IN  IF r.ok
             THEN /\ landlords' = r.value
                  /\ pc' = "load_seen"
                  /\ UNCHANGED hist
             ELSE /\ pc' = "aborted"
                  /\ hist' = [hist EXCEPT !.dbFailed = TRUE]
                  /\ UNCHANGED landlords
    /\ UNCHANGED <<variant, creds, run, file, seen, listings, idx, found, last, harness>>

\* seen_properties = load_seen_properties()
LoadSeen ==
    /\ fn = "main"
    /\ pc = "load_seen"
    /\ LET r == load_seen_properties(file)
       IN  IF r.ok
           THEN /\ seen' = r.value
                /\ pc' = "fetch"
                /\ hist' = [hist EXCEPT !.loaded = r.value]
           ELSE /\ pc' = "aborted"
                /\ UNCHANGED <<seen, hist>>
    /\ UNCHANGED <<variant, creds, run, file, landlords, listings, idx, found, last, harness>>

\* the retrieval loop over SEARCH_URLS / fetch_properties(): the listing
\* sequence of this run; opportunities_found = 0
Fetch ==
    /\ fn = "main"
    /\ pc = "fetch"
    /\ \E ls \in Feeds(variant) :
         /\ listings' = ls
         /\ hist' = [hist EXCEPT !.same = (hist.prevCompleted /\ ls = listings)]
    /\ idx' = 1
    /\ found' = 0
    /\ pc' = "loop"
    /\ UNCHANGED <<variant, creds, run, file, landlords, seen, last, harness>>

\* faulty variant of LoopFinished: the loop is left after its first iteration
LoopFinishedEarly(i, props) == i > Len(props) \/ i > 1

\* the for loop is exhausted
LoopFinished(i, props) == i > Len(props)

\* faulty variant of SkipListing: a listing is processed only while the set is empty
SkipAfterFirst(prop_id, seen_ids) == ~Truthy(prop_id) \/ seen_ids # {}

\* faulty variant of SkipListing: the dedup set is not consulted
SkipEmptyOnly(prop_id, seen_ids) == ~Truthy(prop_id)

\* if not prop_id or prop_id in seen_properties: continue
SkipListing(prop_id, seen_ids) == ~Truthy(prop_id) \/ prop_id \in seen_ids

\* faulty variant of IsOpportunity: both criteria are required
IsOpportunityBoth(v, epc_rating, hmo_score) == is_low_epc(v, epc_rating) /\ hmo_score >= 25

\* is_opportunity: if is_low_epc(epc_rating) ... elif hmo_score >= 25 ...
IsOpportunity(v, epc_rating, hmo_score) ==
    IF is_low_epc(v, epc_rating) THEN TRUE
    ELSE IF hmo_score >= 25 THEN TRUE
    ELSE FALSE

\* faulty variant of MarkSeen: a listing whose alert failed is left for the next run
MarkSeenRetryFailed(seen_ids, prop_id, sent) ==
    IF sent = "failed" THEN seen_ids ELSE seen_ids \cup {prop_id}

\* faulty variant of MarkSeen: the add sits inside  if matches:  and marks only the
\* listings an alert was attempted for
MarkSeenAlertedOnly(seen_ids, prop_id, sent) ==
    IF sent = "no" THEN seen_ids ELSE seen_ids \cup {prop_id}

\* faulty variant of MarkSeen: the set is replaced by the id instead of extended
MarkSeenReplace(seen_ids, prop_id, sent) == {prop_id}

\* seen_properties.add(prop_id), the last statement of the loop body; sent is
\* "ok", "failed" or "no" (nothing dispatched)
MarkSeen(seen_ids, prop_id, sent) == seen_ids \cup {prop_id}

\* faulty variant of ShouldAlert: every opportunity is alerted on, matched or not
ShouldAlertAnyOpportunity(is_opportunity, matches) == is_opportunity

\* if is_opportunity: ... if matches: -- the alert is formatted and sent
ShouldAlert(is_opportunity, matches) == is_opportunity /\ matches # <<>>

\* one iteration of  for prop in all_properties.  The alert text
\* (format_opportunity_alert) reaches only the notification channel and is
\* not part of the state.
ProcessListing ==
    /\ fn = "main"
    /\ pc = "loop"
    /\ ~LoopFinished(idx, listings)
    /\ LET prop == listings[idx]
           prop_id == prop.id
       IN  IF SkipListing(prop_id, seen)
           THEN /\ last' = [NoIteration EXCEPT !.kind = "skipped", !.id = prop_id]
                /\ UNCHANGED <<seen, found, hist>>
           ELSE LET hmo == Assessed[variant][prop]
                    epc_rating == Rated[variant][prop]
                    is_opportunity == IsOpportunity(variant, epc_rating, hmo.score)
                    matches == IF is_opportunity THEN Matched[landlords][prop] ELSE <<>>
                    alert == ShouldAlert(is_opportunity, matches)
                IN  \E ok \in (IF alert THEN send_telegram_alert(creds) ELSE {FALSE}) :
                      LET sent == IF ~alert THEN "no" ELSE IF ok THEN "ok" ELSE "failed"
                      IN  /\ found' = IF alert /\ ok THEN found + 1 ELSE found
                          /\ seen' = MarkSeen(seen, prop_id, sent)
                          /\ last' = [kind |-> "processed", id |-> prop_id, hmo_score |-> hmo.score,
                                      epc_rating |-> epc_rating, is_opportunity |-> is_opportunity,
                                      matches |-> matches, sent |-> sent]
                          /\ hist' = [hist EXCEPT
                                        !.scored = @ \cup {prop_id},
                                        !.matchedOn = IF is_opportunity THEN @ \cup {prop_id} ELSE @,
                                        !.dispatched = IF alert THEN Append(@, prop_id) ELSE @,
                                        !.alerted = IF alert THEN @ \cup {prop_id} ELSE @,
                                        !.realerted = @ \/ (alert /\ prop_id \in hist.alerted)]
    /\ idx' = idx + 1
    /\ UNCHANGED <<variant, creds, pc, run, file, landlords, listings, harness>>

\* save_seen_properties, first half: open('seen_properties.json', 'w')
\* truncates the file
SaveOpen ==
    /\ fn = "main"
    /\ pc = "loop"
    /\ LoopFinished(idx, listings)
    /\ file' = Truncated
    /\ pc' = "dump"
    /\ UNCHANGED <<variant, creds, run, landlords, seen, listings, idx, found, last, hist, harness>>

\* save_seen_properties, second half: json.dump and close
SaveDump ==
    /\ fn = "main"
    /\ pc = "dump"
    /\ file' \in save_seen_properties(seen)
    /\ hist' = [hist EXCEPT !.writes = @ + 1]
    /\ pc' = "summary"
    /\ UNCHANGED <<variant, creds, run, landlords, seen, listings, idx, found, last, harness>>

\* the closing prints: opportunities_found and len(seen_properties)
Summary ==
    /\ fn = "main"
    /\ pc = "summary"
    /\ hist' = [hist EXCEPT !.summary = TRUE]
    /\ pc' = "done"
    /\ UNCHANGED <<variant, creds, run, file, landlords, seen, listings, idx, found, last, harness>>

Running == {"start", "load_seen", "fetch", "loop", "dump", "summary"}

\* the process is killed from outside (power loss, SIGKILL): its memory is
\* gone, the file stays as it is
Crash ==
    /\ fn = "main"
    /\ pc \in Running
    /\ pc' = "crashed"
    /\ landlords' = <<>>
    /\ seen' = {}
    /\ idx' = 0
    /\ found' = 0
    /\ last' = NoIteration
    /\ hist' = [NewHist(hist.fileAtStart, hist.prevCompleted) EXCEPT
                  !.writes = hist.writes, !.crashedAt = pc, !.crashedIdx = idx]
    /\ UNCHANGED <<variant, creds, run, file, listings, harness>>

\* the scheduler starts main() again
NextRun ==
    /\ fn = "main"
    /\ pc \in {"done", "aborted", "crashed"}
    /\ run < MaxRuns
    /\ run' = run + 1
    /\ pc' = "start"
    /\ landlords' = <<>>
    /\ seen' = {}
    /\ idx' = 0
    /\ found' = 0
    /\ last' = NoIteration
    /\ hist' = [NewHist(file, pc = "done") EXCEPT
                  !.alerted = hist.alerted, !.realerted = hist.realerted]
    /\ UNCHANGED <<variant, creds, file, listings, harness>>

\* the steps of main() itself
MainStep == LoadLandlords \/ LoadSeen \/ Fetch \/ ProcessListing \/ SaveOpen \/ SaveDump \/ Summary

Next == MainStep \/ Crash \/ NextRun

Spec == Init /\ [][Next]_vars

\* main() without an external kill, each step taken once it can be: a
\* synchronous run-to-completion job on a finite listing sequence
LiveNext == MainStep \/ NextRun

LiveSpec == Init /\ [][LiveNext]_vars /\ WF_vars(MainStep)

(***************************************************************************)
(* The pure functions on their own, applied once to an input drawn from a  *)
(* bounded set                                                             *)
(***************************************************************************)
\* the most rows of a workbook
MaxRows == 4

\* the most landlords of an index
MaxLandlords == 6

\* what can reach is_low_epc, and two values that are not grades
EpcRatings == {"A", "B", "C", "D", "E", "F", "G", None, Sentinel, "", "d"}

Descriptions ==
    {"", "EPC D", "EPC rating e", "epc  rating  g", "EPC rating: D", "EPC A", "EPC rating B",
     "epc c", "EPC F", "energy efficiency certificate available", "Energy Efficiency EPC c",
     "EPC exempt", "ideal hmo for students"}

RowCatalog ==
    { Row("Alice", "Regency", "AgentA", 3), Row("Alice", "Regency", None, 2),
      Row("Alice", None, "AgentB", 0), Row("Bob", "Kemptown", "", 4),
      Row(None, "Regency", "AgentA", 2), Row("", "Wish", "AgentB", 1) }

Profile(wards, count, agent) ==
    [name |-> "", properties |-> [k \in 1..count |-> "1 X St"], wards |-> wards,
     total_bedrooms |-> 0, property_count |-> count, agent |-> agent]

Profiles ==
    { Profile({"Regency"}, 3, "AgentA"), Profile({"Regency", "Queens Park", None}, 1, ""),
      Profile({"Wish"}, 1, "AgentB"), Profile({"Portslade"}, 3, "") }

\* a landlord index as load_landlord_database builds it: distinct keys in
\* insertion order, each profile carrying its key as name
IndexOf(profiles) ==
    [k \in 1..Len(profiles) |->
        [key |-> "L" \o IntToStr(k), value |-> [profiles[k] EXCEPT !.name = "L" \o IntToStr(k)]]]

MatchTitles == {"Flat BN1 4AA", "Studio BN41 2CD", "House in Hove"}

InitFn ==
    /\ variant = "scraper"
    /\ creds = FALSE
    /\ pc = "start"
    /\ run = 1
    /\ file = NoFile
    /\ landlords = <<>>
    /\ seen = {}
    /\ listings = <<>>
    /\ idx = 0
    /\ found = 0
    /\ last = NoIteration
    /\ hist = NewHist(NoFile, FALSE)
    /\ fn = "idle"
    /\ input = <<>>
    /\ output = <<>>

main_state == <<creds, pc, run, file, landlords, seen, listings, idx, found, last, hist>>

ApplyIsLowEpc ==
    /\ fn = "idle"
    /\ \E v \in Variants, r \in EpcRatings :
         /\ variant' = v
         /\ input' = r
         /\ output' = is_low_epc(v, r)
    /\ fn' = "is_low_epc"
    /\ UNCHANGED main_state

\* epc_rating = extract_epc_rating(prop) followed by is_low_epc(epc_rating)
ApplyExtractEpc ==
    /\ fn = "idle"
    /\ \E v \in Variants, d \in Descriptions :
         LET rating == extract_epc_rating(v, [description |-> d])
         IN  /\ variant' = v
             /\ input' = d
             /\ output' = [rating |-> rating, low |-> is_low_epc(v, rating)]
    /\ fn' = "extract_epc_rating"
    /\ UNCHANGED main_state

ApplyFindMatching ==
    /\ fn = "idle"
    /\ \E t \in MatchTitles, ps \in SeqsUpTo(Profiles, MaxLandlords) :
         /\ input' = [prop |-> [title |-> t], landlords |-> IndexOf(ps)]
         /\ output' = find_matching_landlords([title |-> t], IndexOf(ps))
    /\ fn' = "find_matching_landlords"
    /\ UNCHANGED <<variant, main_state>>

ApplyLoadDatabase ==
    /\ fn = "idle"
    /\ \E sheet \in {Workbook(rows) : rows \in SeqsUpTo(RowCatalog, MaxRows)} \cup {Missing} :
         /\ input' = sheet
         /\ output' = load_landlord_database(sheet)
    /\ fn' = "load_landlord_database"
    /\ UNCHANGED <<variant, main_state>>

\* the ids a dedup store can hold
IdPool == {"p1", "p2", "p3"}

\* seen_properties.json as a call can find it
StoreFiles == {NoFile} \cup UNION {save_seen_properties(T) : T \in SUBSET IdPool}

\* save_seen_properties(seen_ids) on whatever the file held, then
\* load_seen_properties()
ApplySaveLoad ==
    /\ fn = "idle"
    /\ \E prior \in StoreFiles, S \in SUBSET IdPool :
         /\ input' = [prior |-> prior, ids |-> S]
         /\ file' \in save_seen_properties(S)
         /\ output' = load_seen_properties(file')
    /\ fn' = "save_seen_properties"
    /\ UNCHANGED <<variant, creds, pc, run, landlords, seen, listings, idx, found, last, hist>>

\* load_seen_properties() alone
ApplyLoadSeen ==
    /\ fn = "idle"
    /\ \E f \in StoreFiles :
         /\ input' = f
         /\ file' = f
         /\ output' = load_seen_properties(f)
    /\ fn' = "load_seen_properties"
    /\ UNCHANGED <<variant, creds, pc, run, landlords, seen, listings, idx, found, last, hist>>

\* titles with a postcode of each district of the ward table, of districts
\* outside it, and without a postcode
WardTitles ==
    {"Flat BN1 4AA", "Flat BN2 1AB", "4 bed BN3 2EF", "Studio BN41 2CD", "House BN42 4TF",
     "flat bn3 5xy", "Flat BN27AB", "House BN11 1AA", "Cottage BN7 1XY", "House in Hove"}

\* the first two statements of find_matching_landlords
ApplyCandidateWards ==
    /\ fn = "idle"
    /\ \E t \in WardTitles :
         /\ input' = t
         /\ output' = [postcode |-> extract_postcode(t), wards |-> CandidateWards([title |-> t])]
    /\ fn' = "candidate_wards"
    /\ UNCHANGED <<variant, main_state>>

AssessTitles == {"Flat", "5 bed flat", "3 bed terrace", "HMO flat"}

AssessDescriptions ==
    {"", "hmo hmo hmo", "Ideal HMO for students",
     "hmo student sharers rental income investment multi separate ensuite",
     "mid terrace home", "terraced house", "4 bed house"}

\* the values of the structured bedrooms field
BedroomCounts == {0, 2, 3, 4, 5, 6}

ApplyAssess ==
    /\ fn = "idle"
    /\ \E v \in Variants, t \in AssessTitles, d \in AssessDescriptions, b \in BedroomCounts :
         LET prop == [title |-> t, description |-> d, bedrooms |-> b]
         IN  /\ variant' = v
             /\ input' = prop
             /\ output' = assess_hmo_potential(v, prop)
    /\ fn' = "assess_hmo_potential"
    /\ UNCHANGED main_state

NextFn ==
    \/ ApplyIsLowEpc \/ ApplyExtractEpc \/ ApplyFindMatching \/ ApplyLoadDatabase
    \/ ApplySaveLoad \/ ApplyLoadSeen \/ ApplyCandidateWards \/ ApplyAssess

SpecFn == InitFn /\ [][NextFn]_vars

(***************************************************************************)
(* Properties                                                              *)
(***************************************************************************)
Ids(props) == {props[k].id : k \in 1..Len(props)}

\* the listing would be alerted on if it were processed with the current index
WouldAlert(l) ==
    /\ IsOpportunity(variant, Rated[variant][l], Assessed[variant][l].score)
    /\ Matched[landlords][l] # <<>>

\* C1: a run that follows a completed run and receives the identical listing
\* sequence scores nothing, dispatches no alert and reports
\* opportunities_found = 0, whatever the landlord index
C1_IdempotentRerun ==
    (hist.same /\ pc \in {"loop", "dump", "summary", "done"}) =>
        (hist.scored = {} /\ hist.dispatched = <<>> /\ found = 0)

\* a completed rerun on the same listings, one of which would be alerted on
C1_Witness ==
    /\ pc = "done"
    /\ hist.same
    /\ \E k \in 1..Len(listings) : WouldAlert(listings[k])

\* C2: at the end of main() the saved set holds the id of every listing the
\* run processed (non-empty id, not loaded as seen), whatever became of it
C2_ProcessedIdsSaved ==
    pc = "done" =>
        /\ file.state = "json"
        /\ hist.scored = Ids(listings) \ (hist.loaded \cup {None, ""})
        /\ hist.scored \subseteq Range(file.ids)

\* a completed run with a failed alert and a listing no alert was sent for
C2_Witness ==
    /\ pc = "done"
    /\ found < Len(hist.dispatched)
    /\ Len(hist.dispatched) < Cardinality(hist.scored)

\* C3: a listing whose id was loaded from the dedup store is not scored, not
\* matched against the landlords and not alerted on in that run
C3_SeenListingsSkipped ==
    hist.loaded \cap (hist.scored \cup hist.matchedOn \cup Range(hist.dispatched)) = {}

\* a completed run that met an already seen listing it would have alerted on
C3_Witness ==
    /\ pc = "done"
    /\ \E k \in 1..Len(listings) : listings[k].id \in hist.loaded /\ WouldAlert(listings[k])

BeforeSave == {"start", "load_seen", "fetch", "loop"}

\* C4: the file is written once per run, after the loop has finished; up to
\* then, and after a crash up to then, it is what it was at run start
C4_SavedOnceAfterLoop ==
    /\ pc \in BeforeSave => (file = hist.fileAtStart /\ hist.writes = 0)
    /\ pc \in {"dump", "summary", "done"} => idx > Len(listings)
    /\ pc \in {"summary", "done"} => hist.writes = 1
    /\ (pc = "crashed" /\ hist.crashedAt \in BeforeSave) =>
           (file = hist.fileAtStart /\ hist.writes = 0)

\* a crash in the middle of the loop of a run that started with ids on disk
C4_Witness ==
    /\ pc = "crashed"
    /\ hist.crashedAt = "loop"
    /\ hist.crashedIdx = 2
    /\ Len(listings) = 2
    /\ file.state = "json"
    /\ file.ids # <<>>

\* C5: every run of main() reaches its end, the dedup set saved and the
\* summary emitted: short of its end main() always has a next step (the
\* listing sequence being finite, it then arrives), and at its end the set
\* is saved and the summary printed
C5_RunAlwaysCompletes ==
    /\ pc # "done" => ENABLED MainStep
    /\ pc = "done" => (hist.summary /\ hist.writes = 1 /\ file.state = "json")

\* C6: a failure to load the landlord database does not abort the run, which
\* goes on with an empty index
C6_DatabaseFailureTolerated ==
    hist.dbFailed => (pc # "aborted" /\ landlords = <<>>)

\* C7: an unseen listing is an opportunity iff its EPC is low or its
\* hmo_score is at least 25, and only opportunities are matched
C7_OpportunityIsOr ==
    last.kind = "processed" =>
        /\ last.is_opportunity <=> (is_low_epc(variant, last.epc_rating) \/ last.hmo_score >= 25)
        /\ (last.id \in hist.matchedOn) <=> last.is_opportunity

\* a run whose first listing qualified by its EPC alone (score 0) and whose
\* last listing qualified by its score alone (EPC absent or A, B, C)
C7_Witness ==
    /\ last.kind = "processed"
    /\ last.is_opportunity
    /\ last.hmo_score >= 25
    /\ last.epc_rating \in {None, "A", "B", "C"}
    /\ Len(listings) = 2
    /\ listings[1].id \in hist.matchedOn
    /\ Assessed[variant][listings[1]].score = 0
    /\ Rated[variant][listings[1]] \in LowGrades

\* C8: is_low_epc is true exactly for D, E, F, G: false for A, B, C, for None
\* and for the sentinel the rss extract_epc_rating returns when the text only
\* mentions energy efficiency
C8_LowEpcGrades ==
    /\ fn = "is_low_epc" => (output <=> input \in {"D", "E", "F", "G"})
    /\ fn = "extract_epc_rating" =>
          /\ output.low <=> output.rating \in {"D", "E", "F", "G"}
          /\ output.rating \in {"A", "B", "C", "D", "E", "F", "G", None, Sentinel}
          /\ (variant = "rss" /\ EpcMatch(input) = None /\ Contains("energy efficiency", lower(input)))
                 => output.rating = Sentinel

\* the sentinel extracted from a description and found not low
C8_Witness ==
    /\ fn = "extract_epc_rating"
    /\ output.rating = Sentinel
    /\ ~output.low

\* C9: find_matching_landlords returns at most 5 entries, each of score >= 20
C9_AtMostFiveAboveThreshold ==
    fn = "find_matching_landlords" =>
        /\ Len(output) <= 5
        /\ \A k \in 1..Len(output) : output[k].score >= 20

\* six landlords that all qualify as active investors, five returned
C9_Witness ==
    /\ fn = "find_matching_landlords"
    /\ Len(input.landlords) = 6
    /\ \A k \in 1..Len(input.landlords) : input.landlords[k].value.property_count >= 3
    /\ Len(output) = 5

\* C10: load_landlord_database yields one profile per distinct non-empty
\* applicant name, its property_count the number of rows of that name and the
\* length of its properties; rows without a name change nothing
C10_OneProfilePerName ==
    (fn = "load_landlord_database" /\ input.state = "ok") =>
        LET rows == input.rows
            dict == output.value
            names == {rows[k].name : k \in 1..Len(rows)} \ {None, ""}
            Named(r) == Truthy(r.name)
        IN  /\ output.ok
            /\ {dict[k].key : k \in 1..Len(dict)} = names
            /\ Len(dict) = Cardinality(names)
            /\ \A k \in 1..Len(dict) :
                  /\ dict[k].value.name = dict[k].key
                  /\ dict[k].value.property_count =
                         Cardinality({i \in 1..Len(rows) : rows[i].name = dict[k].key})
                  /\ Len(dict[k].value.properties) = dict[k].value.property_count
            /\ dict = load_landlord_database(Workbook(SelectSeq(rows, Named))).value

\* four rows: two of one landlord, one with name None, one with name ''
C10_Witness ==
    /\ fn = "load_landlord_database"
    /\ input.state = "ok"
    /\ Len(input.rows) = 4
    /\ \E i, j \in 1..4 : input.rows[i].name = None /\ input.rows[j].name = ""
    /\ Len(output.value) = 1
    /\ output.value[1].value.property_count = 2

\* the rows of one landlord, as positions in the sheet
RowsOf(rows, name) == {i \in 1..Len(rows) : rows[i].name = name}

\* C11: a profile's agent is the first non-empty agent among the landlord's
\* rows in row order ('' when there is none): a later non-empty agent does
\* not overwrite it, a row with an empty agent neither sets nor clears it
C11_FirstAgentWins ==
    (fn = "load_landlord_database" /\ input.state = "ok") =>
        LET rows == input.rows
            dict == output.value
        IN  \A k \in 1..Len(dict) :
              LET withAgent == {i \in RowsOf(rows, dict[k].key) : Truthy(rows[i].agent)}
                  first == CHOOSE i \in withAgent : \A j \in withAgent : i <= j
              IN  dict[k].value.agent = IF withAgent = {} THEN "" ELSE rows[first].agent

\* a landlord with a non-empty agent, then an empty one, then a different
\* non-empty one: the first is kept
C11_Witness ==
    /\ fn = "load_landlord_database"
    /\ input.state = "ok"
    /\ \E i, j, k \in 1..Len(input.rows) :
          /\ i < j /\ j < k
          /\ input.rows[i].name = "Alice" /\ input.rows[j].name = "Alice" /\ input.rows[k].name = "Alice"
          /\ input.rows[i].agent = "AgentB"
          /\ ~Truthy(input.rows[j].agent)
          /\ input.rows[k].agent = "AgentA"
    /\ output.value[1].value.agent = "AgentB"

SameIdSameRecord(props) ==
    \A i, j \in 1..Len(props) : props[i].id = props[j].id => props[i] = props[j]

\* C13: the persisted set and the set of ids alerted on at the end of a
\* completed run are determined by the set of listing records (with the
\* loaded set and the landlord index), not by the order of their arrival:
\* any two orderings of the same records end alike
C13_ArrivalOrderIrrelevant ==
    (pc = "done" /\ SameIdSameRecord(listings)) =>
        LET recs == {l \in Range(listings) : Truthy(l.id)}
        IN  /\ Range(file.ids) = hist.loaded \cup {l.id : l \in recs}
            /\ Range(hist.dispatched) =
                   {l.id : l \in {x \in recs : x.id \notin hist.loaded /\ WouldAlert(x)}}

\* a completed run over two different listings, only the one that arrived
\* last alerted on
C13_Witness ==
    /\ pc = "done"
    /\ Len(listings) = 2
    /\ Truthy(listings[1].id)
    /\ listings[1].id # listings[2].id
    /\ hist.dispatched = <<listings[2].id>>
    /\ listings[1].id \notin hist.loaded

\* C14: over consecutive runs none of which was killed, no listing id has
\* had more than one alert dispatch attempted, whether it recurs within a run
\* or in a later run
C14_AtMostOneDispatchPerId ==
    /\ ~hist.realerted
    /\ \A i, j \in 1..Len(hist.dispatched) : hist.dispatched[i] = hist.dispatched[j] => i = j

\* a second completed run on the listings of the first, which hold one
\* alert-worthy listing twice: one dispatch in all
C14_Witness ==
    /\ pc = "done"
    /\ run = 2
    /\ hist.same
    /\ Len(listings) = 2
    /\ listings[1] = listings[2]
    /\ WouldAlert(listings[1])
    /\ hist.alerted = {listings[1].id}
    /\ hist.dispatched = <<>>

\* the candidate wards find_matching_landlords derives from a title
WardsOfTitle(title) == CandidateWards([title |-> title])

\* the position of a landlord in the enumeration of the index
PosOf(dict, name) == CHOOSE k \in 1..Len(dict) : dict[k].key = name

\* C15: the returned list is in non-increasing score order, entries of equal
\* score in the order of enumeration of the index, and a qualifying landlord
\* is left out only when five are returned that all precede it in that order
C15_SortedStableTop5 ==
    fn = "find_matching_landlords" =>
        LET dict == input.landlords
            wards == WardsOfTitle(input.prop.title)
            Before(s1, k1, s2, k2) == s1 > s2 \/ (s1 = s2 /\ k1 < k2)
            kept == {PosOf(dict, output[i].landlord) : i \in 1..Len(output)}
        IN  /\ \A i, j \in 1..Len(output) :
                  i < j => Before(output[i].score, PosOf(dict, output[i].landlord),
                                  output[j].score, PosOf(dict, output[j].landlord))
            /\ \A k \in (1..Len(dict)) \ kept :
                  Qualifies(MatchOf(wards, dict[k])) =>
                      /\ Len(output) = 5
                      /\ \A i \in 1..5 :
                            Before(output[i].score, PosOf(dict, output[i].landlord),
                                   MatchOf(wards, dict[k]).score, k)

\* six qualifying landlords, the best enumerated last: it comes first, the
\* others keep their order, the fifth of them is dropped on a tie
C15_Witness ==
    /\ fn = "find_matching_landlords"
    /\ Len(input.landlords) = 6
    /\ Len(output) = 5
    /\ output[1].landlord = "L6"
    /\ output[2].landlord = "L1"
    /\ output[5].landlord = "L4"
    /\ output[5].score = 20
    /\ Qualifies(MatchOf(WardsOfTitle(input.prop.title), input.landlords[5]))

\* the number of candidate wards that are in a ward set
WardHits(wards, wardSet) == Cardinality({i \in 1..Len(wards) : wards[i] \in wardSet})

\* 30 per candidate ward in the ward set, 20 for three or more properties, 10
\* for an agent
ScoreFormula(wards, info) ==
    30 * WardHits(wards, info.wards)
        + (IF info.property_count >= 3 THEN 20 ELSE 0)
        + (IF Truthy(info.agent) THEN 10 ELSE 0)

StartsWith(s, prefix) == Slice(s, 1, Len(prefix)) = prefix

\* C16: every returned entry carries the score 30 * (candidate wards in the
\* profile's ward set) + 20 if property_count >= 3 + 10 if the agent is
\* non-empty, with one reason per term in the order wards, investor, agent;
\* a landlord that is not returned has a score below 20 by that formula,
\* unless five are returned
C16_MatchScoreFormula ==
    fn = "find_matching_landlords" =>
        LET dict == input.landlords
            wards == WardsOfTitle(input.prop.title)
            kept == {PosOf(dict, output[i].landlord) : i \in 1..Len(output)}
        IN  /\ \A i \in 1..Len(output) :
                  LET info == dict[PosOf(dict, output[i].landlord)].value
                      w == WardHits(wards, info.wards)
                      inv == IF info.property_count >= 3 THEN 1 ELSE 0
                      ag == IF Truthy(info.agent) THEN 1 ELSE 0
                      rs == output[i].reasons
                  IN  /\ output[i].score = ScoreFormula(wards, info)
                      /\ Len(rs) = w + inv + ag
                      /\ \A r \in 1..w : StartsWith(rs[r], "Has properties in ")
                      /\ inv = 1 => StartsWith(rs[w + 1], "Active investor (")
                      /\ ag = 1 => rs[w + inv + 1] = "Works with agent: " \o info.agent
            /\ \A k \in (1..Len(dict)) \ kept :
                  ScoreFormula(wards, dict[k].value) < 20 \/ Len(output) = 5

\* a listing in BN1 against a landlord with two of its wards (60, two
\* reasons), one with a ward, three properties and an agent (60, three
\* reasons), and one with an agent only (10, not returned)
C16_Witness ==
    /\ fn = "find_matching_landlords"
    /\ Len(output) = 2
    /\ Len(input.landlords) = 3
    /\ output[1].score = 60 /\ Len(output[1].reasons) = 2
    /\ output[2].score = 60 /\ Len(output[2].reasons) = 3
    /\ \E k \in 1..3 : ScoreFormula(WardsOfTitle(input.prop.title), input.landlords[k].value) = 10

\* the district (outward code) of a postcode: what precedes the inward code
\* of a digit and two letters
District(postcode) ==
    IF Contains(" ", postcode) THEN SubSeq(postcode, 1, 2 + RunLen(postcode, 3, Digits))
    ELSE SubSeq(postcode, 1, Len(postcode) - 3)

\* C17: a listing whose title carries a postcode gets as candidate wards the
\* ward list the table holds for the postcode's district (BN1, BN2, BN3, BN41,
\* BN42), the empty list for a district that is not in the table
C17_EveryWardEntryReachable ==
    (fn = "candidate_wards" /\ output.postcode # None) =>
        output.wards = DictGet(ward_map, District(output.postcode), <<>>)

\* C18: a landlord's ward set holds exactly the distinct non-empty ward
\* values of the landlord's rows; a row whose ward is None or '' adds no
\* element to it and raises no error
C18_WardSetNonEmptyValues ==
    (fn = "load_landlord_database" /\ input.state = "ok") =>
        LET rows == input.rows
            dict == output.value
        IN  /\ output.ok
            /\ \A k \in 1..Len(dict) :
                  dict[k].value.wards =
                      {rows[i].ward : i \in {j \in RowsOf(rows, dict[k].key) : Truthy(rows[j].ward)}}

\* the bedroom count a variant scores: the structured field, or the number
\* the rss variant reads in the text
BedroomsScored(v, prop) ==
    IF v = "scraper" THEN prop.bedrooms
    ELSE BedMatch(lower(prop.title) \o " " \o lower(prop.description))

\* the lower-cased texts a variant scans for keywords
TextsScanned(v, prop) ==
    IF v = "scraper" THEN {lower(prop.description), lower(prop.title)} ELSE {lower(prop.description)}

\* the keywords of the table, by position, that occur in a scanned text
KeywordsPresent(texts) ==
    {k \in 1..Len(hmo_keywords) : \E t \in texts : Contains(hmo_keywords[k][1], t)}

RECURSIVE WeightSum(_, _)
\* the weights of the present keywords from position k on, each once
WeightSum(k, present) ==
    IF k > Len(hmo_keywords) THEN 0
    ELSE (IF k \in present THEN hmo_keywords[k][2] ELSE 0) + WeightSum(k + 1, present)

RECURSIVE MentionReasons(_, _)
\* one "Mentions" reason per present keyword, in table order
MentionReasons(k, present) ==
    IF k > Len(hmo_keywords) THEN <<>>
    ELSE (IF k \in present THEN <<"Mentions '" \o hmo_keywords[k][1] \o "'">> ELSE <<>>)
             \o MentionReasons(k + 1, present)

TierPoints(bedrooms) == IF bedrooms >= 5 THEN 30 ELSE IF bedrooms >= 3 THEN 20 ELSE 0

\* the score without the terraced bonus: bedroom tier, keywords, and the
\* unreasoned +5 of the rss variant for 'house' in the description
BaseScore(v, prop) ==
    TierPoints(BedroomsScored(v, prop)) + WeightSum(1, KeywordsPresent(TextsScanned(v, prop)))
        + (IF v = "rss" /\ Contains("house", lower(prop.description)) THEN 5 ELSE 0)

HasTerraceReason(reasons) == \E k \in 1..Len(reasons) : reasons[k] = TerraceReason

C20_TerraceOverTitleAndDescription ==
    fn = "assess_hmo_potential" =>
        LET terr == \/ Contains("terrace", lower(input.title))
                    \/ Contains("terrace", lower(input.description))
        IN  /\ HasTerraceReason(output.reasons) <=> terr
            /\ output.score = BaseScore(variant, input) + (IF terr THEN 5 ELSE 0)

\* a record supplies a structured bedroom count: the scraper's card had one
\* (bedrooms stays 0 when it had none); an RSS entry never has one
SuppliesBedrooms(v, prop) == v = "scraper" /\ prop.bedrooms # 0

\* the first '<N> bed' number of the title and description text, 0 for none
BedroomsInText(prop) == BedMatch(lower(prop.title) \o " " \o lower(prop.description))

\* C21: the bedroom tier is scored on the structured bedrooms field when the
\* record supplies one, and otherwise on the first '<N> bed' number of the
\* title and description text
C21_StructuredBedroomsElseText ==
    fn = "assess_hmo_potential" =>
        LET beds == IF SuppliesBedrooms(variant, input) THEN input.bedrooms ELSE BedroomsInText(input)
            rest == BaseScore(variant, input) - TierPoints(BedroomsScored(variant, input))
                        + (IF HasTerraceReason(output.reasons) THEN 5 ELSE 0)
        IN  /\ output.score - rest = TierPoints(beds)
            /\ beds >= 5 => output.reasons[1] = IntToStr(beds) \o " bedrooms (excellent for HMO)"
            /\ (beds >= 3 /\ beds < 5) => output.reasons[1] = IntToStr(beds) \o " bedrooms (good for HMO)"

\* a step of main() dispatches an alert
Dispatches == Len(hist'.dispatched) = Len(hist.dispatched) + 1

\* what must hold of the listing at hand when an alert is dispatched
DispatchJustified ==
    /\ pc = "loop"
    /\ idx \in 1..Len(listings)
    /\ LET prop == listings[idx]
       IN  /\ Truthy(prop.id)
           /\ prop.id \notin seen
           /\ is_low_epc(variant, Rated[variant][prop]) \/ Assessed[variant][prop].score >= 25
           /\ Matched[landlords][prop] # <<>>
           /\ hist'.dispatched = Append(hist.dispatched, prop.id)

\* C22: an alert is dispatched only for a listing with a non-empty id that is
\* not in the seen set at that moment, that is an opportunity and for which
\* find_matching_landlords returned a match; opportunities_found goes up by
\* one exactly on a dispatch that returned success, so it never exceeds the
\* number of dispatches nor the number of distinct newly seen ids of the run
C22_DispatchOnlyWhenJustified ==
    /\ [](/\ found <= Len(hist.dispatched)
          /\ Len(hist.dispatched) <= Cardinality(hist.scored)
          /\ hist.scored \cap hist.loaded = {})
    /\ [][/\ Dispatches => DispatchJustified
          /\ (found' = found + 1) <=> (Dispatches /\ last'.sent = "ok")
          /\ found' \in {found, found + 1, 0}]_vars

\* a completed second run that dispatched two alerts, one of which failed
C22_Witness ==
    /\ pc = "done"
    /\ hist.loaded # {}
    /\ found = 1
    /\ Len(hist.dispatched) = 2

\* C23: the persisted set only grows: at the end of a run the saved set is
\* the set loaded at its start together with the non-empty ids the run
\* processed, hence a superset of what the file held when the run began,
\* and so from completed run to completed run
C23_PersistedSetOnlyGrows ==
    /\ pc \in {"fetch", "loop", "dump", "summary", "done"} =>
          hist.loaded = Range(hist.fileAtStart.ids)
    /\ pc \in {"loop", "dump"} => hist.loaded \subseteq seen
    /\ pc \in {"summary", "done"} =>
          /\ file.state = "json"
          /\ Range(file.ids) = hist.loaded \cup (Ids(listings) \ {None, ""})
          /\ Range(hist.fileAtStart.ids) \subseteq Range(file.ids)

\* a completed run that began with an id on file, met none of the ids on
\* file among its listings, and added a new one
C23_Witness ==
    /\ pc = "done"
    /\ hist.loaded # {}
    /\ hist.loaded \cap Ids(listings) = {}
    /\ Cardinality(Range(file.ids)) > Cardinality(hist.loaded)

====
